---- MODULE Spec2Model ----
(***************************************************************************)
(* The retirement projection engine of the star estimator: the estimate    *)
(* function of the mock estimate server and its copy in the MCP server.    *)
(*                                                                         *)
(* JavaScript numbers are modelled as exact rationals <<n, d>> in lowest   *)
(* terms with d > 0.  Every number of the payload grid is a dyadic         *)
(* rational of small magnitude, on which IEEE-754 double arithmetic is     *)
(* exact, so the rational results are the double results.  The worked      *)
(* example uses the decimal rates 0.10, 0.06 and 0.05; its products and    *)
(* sums come out the same in doubles (10000, 6000, 3000, 1150, 24150,      *)
(* 1857.5, 39007.5).                                                       *)
(***************************************************************************)
EXTENDS Integers, Sequences, FiniteSets, TLC

\* The longest projection horizon of the payload grid, in years.
MaxYears == 4

\* How many calls with other payloads are counted after the call kept for
\* comparison.
MaxOthers == 2

\* How many further requests a server is sent after its first one.
MaxServed == 2

VARIABLES
  caller,    \* the engine called: "mock" (POST /mock-estimate of the
             \* TypeScript server), "js" (of the JavaScript server) or "mcp"
  payload,   \* the payload of the call
  pc,        \* "called" while the call is pending, "returned" after it
  frame,     \* the loop variables of the engine's latest activation
  result,    \* what the call returned
  earlier,   \* an earlier call kept for comparison:
             \* [made, payload, result, others]
  request,   \* the HTTP request the mock server is handling: [method, url, body]
  hpc,       \* the request handler: "idle", "received" or "done"
  responses, \* the responses written for the request, in order
  engineRuns,     \* how often the handler has called estimate for the request
  kept,           \* what the server holds from storage requests
  served,         \* how many requests the server has finished
  storageHandled, \* how many of them were storage requests
  toolCall,       \* the tools/call request the MCP server is handling
  toolReply,      \* what its handler returned or threw
  conns,          \* the POST /mock-estimate requests a server has in progress
  sessions,       \* the MCP server's sessions map: the session ids it holds
  transports,     \* the SSE transports created so far and where each stands
  post,           \* the latest POST /mcp/messages and what became of it
  widget,         \* the React state of the estimator widget
  host,           \* window.OPENAI_WIDGET_DATA
  pending,        \* the widget's estimate request in flight
  graph           \* a render of the LineGraph component

httpVars ==
  <<request, hpc, responses, engineRuns, kept, served, storageHandled>>

toolVars == <<toolCall, toolReply>>

vars ==
  <<caller, payload, pc, frame, result, earlier, request, hpc, responses,
    engineRuns, kept, served, storageHandled, toolCall, toolReply, conns,
    sessions, transports, post, widget, host, pending, graph>>

sseVars == <<sessions, transports, post>>

widgetVars == <<widget, host, pending>>

\* The state of the parts that take no part in single calls and requests.
restVars ==
  <<conns, sessions, transports, post, widget, host, pending, graph>>

(***************************************************************************)
(* Numbers                                                                 *)
(***************************************************************************)
RECURSIVE GCD(_, _)
GCD(a, b) == IF b = 0 THEN a ELSE GCD(b, a % b)

Abs(x) == IF x < 0 THEN -x ELSE x

\* The number n/d (d > 0) in lowest terms.
Rat(n, d) == LET g == GCD(Abs(n), d) IN <<n \div g, d \div g>>

Num(k) == <<k, 1>>

Zero == Num(0)

Add(x, y) == Rat(x[1] * y[2] + y[1] * x[2], x[2] * y[2])

Sub(x, y) == Rat(x[1] * y[2] - y[1] * x[2], x[2] * y[2])

Mul(x, y) == Rat(x[1] * y[1], x[2] * y[2])

Leq(x, y) == x[1] * y[2] <= y[1] * x[2]

Less(x, y) == x[1] * y[2] < y[1] * x[2]

MathMax(x, y) == IF Less(x, y) THEN y ELSE x

MathMin(x, y) == IF Less(y, x) THEN y ELSE x

\* Math.round: the nearest integer, a tie going up (towards +Infinity).
MathRound(x) == (2 * x[1] + x[2]) \div (2 * x[2])

(***************************************************************************)
(* Request payloads: each field is a JavaScript value [type, val].         *)
(***************************************************************************)
Number(x) == [type |-> "number", val |-> x]

Boolean(b) == [type |-> "boolean", val |-> IF b THEN Num(1) ELSE Zero]

Undefined == [type |-> "undefined", val |-> Zero]

Null == [type |-> "null", val |-> Zero]

\* A string that reads as the number x, such as "32".
NumericString(x) == [type |-> "numeric string", val |-> x]

\* A non-empty string that reads as no number, such as "false".
Text == [type |-> "text", val |-> Zero]

EmptyString == [type |-> "empty string", val |-> Zero]

\* What JSON.parse makes of a number beyond the double range, such as 1e999.
InfinityValue == [type |-> "infinity", val |-> Zero]

\* A nested object.
ObjectValue == [type |-> "object", val |-> Zero]

\* toNumber(v, def = 0): Number(v) when that is finite, else def.  Number
\* reads null and "" as 0, a boolean as 0 or 1, a numeric string as its
\* number, and undefined, other strings and objects as NaN.
toNumber(v) ==
  CASE v.type = "number" -> v.val
    [] v.type = "boolean" -> v.val
    [] v.type = "numeric string" -> v.val
    [] OTHER -> Zero

\* !!v: false for undefined, null, 0, false and "", true for all else.
Truthy(v) ==
  CASE v.type = "number" -> v.val # Zero
    [] v.type = "boolean" -> v.val # Zero
    [] v.type \in {"numeric string", "text", "infinity", "object"} -> TRUE
    [] OTHER -> FALSE

(***************************************************************************)
(* estimate of the mock estimate server                                    *)
(***************************************************************************)
\* The coerced fields estimate reads from its payload.
locals(body) ==
  [age |-> toNumber(body.age),
   retirementAge |-> toNumber(body.retirementAge),
   annualSalary |-> toNumber(body.annualSalary),
   currentSavings |-> toNumber(body.currentSavings),
   contribPct |-> toNumber(body.annualContributionPct),
   employerMatch |-> Truthy(body.employerMatch),
   matchUpToPct |-> toNumber(body.matchUpToPct),
   matchRatePct |-> toNumber(body.matchRatePct),
   annualReturn |-> toNumber(body.assumedAnnualReturnPct)]

\* Math.max(0, n) on integers.
ClampYears(n) == IF n < 0 THEN 0 ELSE n

years_Unclamped(retirementAge, age) == MathRound(Sub(retirementAge, age))
years_Truncated(retirementAge, age) ==
  ClampYears(Sub(retirementAge, age)[1] \div Sub(retirementAge, age)[2])
years(retirementAge, age) == ClampYears(MathRound(Sub(retirementAge, age)))

\* The loop variables as the function declares them before the loop.
entry_Unclamped(currentSavings) ==
  [i |-> 0, start |-> currentSavings, totalEmployeeContrib |-> Zero,
   totalEmployerMatch |-> Zero, rows |-> <<>>]
entry_TotalsNotReset(currentSavings) ==
  [i |-> 0, start |-> MathMax(Zero, currentSavings),
   totalEmployeeContrib |-> frame.totalEmployeeContrib,
   totalEmployerMatch |-> frame.totalEmployerMatch, rows |-> <<>>]
entry(currentSavings) ==
  [i |-> 0,
   start |-> MathMax(Zero, currentSavings),
   totalEmployeeContrib |-> Zero,
   totalEmployerMatch |-> Zero,
   rows |-> <<>>]

employeeContribution_Unfloored(annualSalary, contribPct) ==
  Mul(annualSalary, contribPct)
employeeContribution(annualSalary, contribPct) ==
  MathMax(Zero, Mul(annualSalary, contribPct))

cappedPct_Uncapped(contribPct, matchUpToPct) == contribPct
cappedPct(contribPct, matchUpToPct) == MathMin(contribPct, matchUpToPct)

employerBase(annualSalary, capped) == MathMax(Zero, Mul(annualSalary, capped))

employer_IgnoresToggle(employerMatch, base, matchRatePct) ==
  Mul(base, matchRatePct)
employer(employerMatch, base, matchRatePct) ==
  IF employerMatch THEN Mul(base, matchRatePct) ELSE Zero

growth_Unfloored(start, contribution, match, annualReturn) ==
  Mul(Add(Add(start, contribution), match), annualReturn)
growth_OnStartOnly(start, contribution, match, annualReturn) ==
  MathMax(Zero, Mul(start, annualReturn))
growth(start, contribution, match, annualReturn) ==
  MathMax(Zero, Mul(Add(Add(start, contribution), match), annualReturn))

end_WithoutGrowth(start, contribution, match, grown) ==
  Add(Add(start, contribution), match)
end(start, contribution, match, grown) ==
  Add(Add(Add(start, contribution), match), grown)

\* The row pushed for one year: the currency fields rounded for display.
point_StartAfterContribution(year, ageThisYear, start, contribution, match, grown, ending) ==
  [year |-> year,
   age |-> ageThisYear,
   startBalance |-> MathRound(Add(start, contribution)),
   employeeContribution |-> MathRound(contribution),
   employerMatch |-> MathRound(match),
   growth |-> MathRound(grown),
   endBalance |-> MathRound(ending)]
point(year, ageThisYear, start, contribution, match, grown, ending) ==
  [year |-> year,
   age |-> ageThisYear,
   startBalance |-> MathRound(start),
   employeeContribution |-> MathRound(contribution),
   employerMatch |-> MathRound(match),
   growth |-> MathRound(grown),
   endBalance |-> MathRound(ending)]

\* One pass of the loop body on the loop variables s.
iteration_RoundedCarry(in, s) ==
  LET year == s.i + 1
      ageThisYear == Add(in.age, Num(year))
      contribution == employeeContribution(in.annualSalary, in.contribPct)
      capped == cappedPct(in.contribPct, in.matchUpToPct)
      base == employerBase(in.annualSalary, capped)
      match == employer(in.employerMatch, base, in.matchRatePct)
      grown == growth(s.start, contribution, match, in.annualReturn)
      ending == end(s.start, contribution, match, grown)
  IN  [i |-> s.i + 1,
       start |-> Num(MathRound(ending)),
       totalEmployeeContrib |-> Add(s.totalEmployeeContrib, contribution),
       totalEmployerMatch |-> Add(s.totalEmployerMatch, match),
       rows |-> Append(s.rows,
                       point(year, ageThisYear, s.start, contribution, match,
                             grown, ending))]
iteration(in, s) ==
  LET year == s.i + 1
      ageThisYear == Add(in.age, Num(year))
      contribution == employeeContribution(in.annualSalary, in.contribPct)
      capped == cappedPct(in.contribPct, in.matchUpToPct)
      base == employerBase(in.annualSalary, capped)
      match == employer(in.employerMatch, base, in.matchRatePct)
      grown == growth(s.start, contribution, match, in.annualReturn)
      ending == end(s.start, contribution, match, grown)
  IN  [i |-> s.i + 1,
       start |-> ending,
       totalEmployeeContrib |-> Add(s.totalEmployeeContrib, contribution),
       totalEmployerMatch |-> Add(s.totalEmployerMatch, match),
       rows |-> Append(s.rows,
                       point(year, ageThisYear, s.start, contribution, match,
                             grown, ending))]

\* for (let i = 0; i < years; i++) { ... }
RECURSIVE loop(_, _, _)
loop(in, n, s) == IF s.i < n THEN loop(in, n, iteration(in, s)) ELSE s

\* The loop variables when the loop of estimate(payload) is left.
run(body) ==
  LET in == locals(body)
  IN  loop(in, years(in.retirementAge, in.age), entry(in.currentSavings))

RECURSIVE SumRows(_, _)
SumRows(rows, employeeSide) ==
  IF rows = <<>> THEN 0
  ELSE (IF employeeSide THEN rows[1].employeeContribution
                        ELSE rows[1].employerMatch)
       + SumRows(Tail(rows), employeeSide)

summary_SumOfRounded(n, s) ==
  [years |-> n,
   endingBalance |-> MathRound(s.start),
   totalEmployeeContrib |-> SumRows(s.rows, TRUE),
   totalEmployerMatch |-> SumRows(s.rows, FALSE)]
summary_Floored(n, s) ==
  [years |-> n,
   endingBalance |-> MathRound(s.start),
   totalEmployeeContrib |-> s.totalEmployeeContrib[1] \div s.totalEmployeeContrib[2],
   totalEmployerMatch |-> s.totalEmployerMatch[1] \div s.totalEmployerMatch[2]]
summary(n, s) ==
  [years |-> n,
   endingBalance |-> MathRound(s.start),
   totalEmployeeContrib |-> MathRound(s.totalEmployeeContrib),
   totalEmployerMatch |-> MathRound(s.totalEmployerMatch)]

\* return { summary, points: rows } from the loop variables s.
returned(body, s) ==
  LET in == locals(body)
  IN  [summary |-> summary(years(in.retirementAge, in.age), s),
       points |-> s.rows]

estimate(body) == returned(body, run(body))

(***************************************************************************)
(* estimate of the MCP server: the same engine on the parsed tool          *)
(* arguments, whose numeric fields are numbers already.                    *)
(***************************************************************************)
mcpLocals(args) ==
  [age |-> args.age.val,
   retirementAge |-> args.retirementAge.val,
   annualSalary |-> args.annualSalary.val,
   currentSavings |-> args.currentSavings.val,
   contribPct |-> args.annualContributionPct.val,
   employerMatch |-> Truthy(args.employerMatch),
   matchUpToPct |-> args.matchUpToPct.val,
   matchRatePct |-> args.matchRatePct.val,
   annualReturn |-> args.assumedAnnualReturnPct.val]

mcpYears(retirementAge, age) == ClampYears(MathRound(Sub(retirementAge, age)))

mcpIteration(in, s) ==
  LET year == s.i + 1
      ageThisYear == Add(in.age, Num(year))
      contribution == MathMax(Zero, Mul(in.annualSalary, in.contribPct))
      capped == MathMin(in.contribPct, in.matchUpToPct)
      base == MathMax(Zero, Mul(in.annualSalary, capped))
      match == IF in.employerMatch THEN Mul(base, in.matchRatePct) ELSE Zero
      grown == MathMax(Zero, Mul(Add(Add(s.start, contribution), match),
                                 in.annualReturn))
      ending == Add(Add(Add(s.start, contribution), match), grown)
  IN  [i |-> s.i + 1,
       start |-> ending,
       totalEmployeeContrib |-> Add(s.totalEmployeeContrib, contribution),
       totalEmployerMatch |-> Add(s.totalEmployerMatch, match),
       rows |-> Append(s.rows,
                       [year |-> year,
                        age |-> ageThisYear,
                        startBalance |-> MathRound(s.start),
                        employeeContribution |-> MathRound(contribution),
                        employerMatch |-> MathRound(match),
                        growth |-> MathRound(grown),
                        endBalance |-> MathRound(ending)])]

RECURSIVE mcpLoop(_, _, _)
mcpLoop(in, n, s) == IF s.i < n THEN mcpLoop(in, n, mcpIteration(in, s)) ELSE s

mcpRun(args) ==
  LET in == mcpLocals(args)
  IN  mcpLoop(in, mcpYears(in.retirementAge, in.age),
              [i |-> 0,
               start |-> MathMax(Zero, in.currentSavings),
               totalEmployeeContrib |-> Zero,
               totalEmployerMatch |-> Zero,
               rows |-> <<>>])

mcpReturned(args, s) ==
  LET in == mcpLocals(args)
  IN  [summary |-> [years |-> mcpYears(in.retirementAge, in.age),
                    endingBalance |-> MathRound(s.start),
                    totalEmployeeContrib |-> MathRound(s.totalEmployeeContrib),
                    totalEmployerMatch |-> MathRound(s.totalEmployerMatch)],
       points |-> s.rows]

mcpEstimate(args) == mcpReturned(args, mcpRun(args))

(***************************************************************************)
(* estimate of the JavaScript mock server                                  *)
(***************************************************************************)
jsToNumber(v) ==
  CASE v.type = "number" -> v.val
    [] v.type = "boolean" -> v.val
    [] v.type = "numeric string" -> v.val
    [] OTHER -> Zero

jsLocals(body) ==
  [age |-> jsToNumber(body.age),
   retirementAge |-> jsToNumber(body.retirementAge),
   annualSalary |-> jsToNumber(body.annualSalary),
   currentSavings |-> jsToNumber(body.currentSavings),
   contribPct |-> jsToNumber(body.annualContributionPct),
   employerMatch |-> Truthy(body.employerMatch),
   matchUpToPct |-> jsToNumber(body.matchUpToPct),
   matchRatePct |-> jsToNumber(body.matchRatePct),
   annualReturn |-> jsToNumber(body.assumedAnnualReturnPct)]

jsYears_Truncated(retirementAge, age) ==
  ClampYears(Sub(retirementAge, age)[1] \div Sub(retirementAge, age)[2])
jsYears(retirementAge, age) == ClampYears(MathRound(Sub(retirementAge, age)))

jsIteration(in, s) ==
  LET year == s.i + 1
      ageThisYear == Add(in.age, Num(year))
      contribution == MathMax(Zero, Mul(in.annualSalary, in.contribPct))
      capped == MathMin(in.contribPct, in.matchUpToPct)
      base == MathMax(Zero, Mul(in.annualSalary, capped))
      match == IF in.employerMatch THEN Mul(base, in.matchRatePct) ELSE Zero
      grown == MathMax(Zero, Mul(Add(Add(s.start, contribution), match),
                                 in.annualReturn))
      ending == Add(Add(Add(s.start, contribution), match), grown)
  IN  [i |-> s.i + 1,
       start |-> ending,
       totalEmployeeContrib |-> Add(s.totalEmployeeContrib, contribution),
       totalEmployerMatch |-> Add(s.totalEmployerMatch, match),
       rows |-> Append(s.rows,
                       [year |-> year,
                        age |-> ageThisYear,
                        startBalance |-> MathRound(s.start),
                        employeeContribution |-> MathRound(contribution),
                        employerMatch |-> MathRound(match),
                        growth |-> MathRound(grown),
                        endBalance |-> MathRound(ending)])]

RECURSIVE jsLoop(_, _, _)
jsLoop(in, n, s) == IF s.i < n THEN jsLoop(in, n, jsIteration(in, s)) ELSE s

jsRun(body) ==
  LET in == jsLocals(body)
  IN  jsLoop(in, jsYears(in.retirementAge, in.age),
             [i |-> 0,
              start |-> MathMax(Zero, in.currentSavings),
              totalEmployeeContrib |-> Zero,
              totalEmployerMatch |-> Zero,
              rows |-> <<>>])

jsReturned(body, s) ==
  LET in == jsLocals(body)
  IN  [summary |-> [years |-> jsYears(in.retirementAge, in.age),
                    endingBalance |-> MathRound(s.start),
                    totalEmployeeContrib |-> MathRound(s.totalEmployeeContrib),
                    totalEmployerMatch |-> MathRound(s.totalEmployerMatch)],
       points |-> s.rows]

jsEstimate(body) == jsReturned(body, jsRun(body))

(***************************************************************************)
(* The payloads the callers send                                           *)
(***************************************************************************)
AgeValues == {Num(30), Rat(61, 2)}

RetirementAgeValues == {Num(a) : a \in 29..(30 + MaxYears)}

SalaryValues == {Num(-101), Zero, Num(101)}

SavingsValues == {Num(-10), Zero, Rat(21, 2)}

ContributionPctValues == {Rat(-1, 2), Zero, Rat(1, 4), Rat(1, 2)}

MatchUpToPctValues == {Zero, Rat(1, 8), Rat(1, 2)}

MatchRatePctValues == {Num(-1), Zero, Rat(1, 2), Num(2)}

ReturnPctValues == {Rat(-1, 2), Zero, Rat(1, 2)}

\* Payloads with all nine fields present and well typed.
GridPayloads ==
  [age : {Number(x) : x \in AgeValues},
   retirementAge : {Number(x) : x \in RetirementAgeValues},
   annualSalary : {Number(x) : x \in SalaryValues},
   currentSavings : {Number(x) : x \in SavingsValues},
   annualContributionPct : {Number(x) : x \in ContributionPctValues},
   employerMatch : {Boolean(b) : b \in BOOLEAN},
   matchUpToPct : {Number(x) : x \in MatchUpToPctValues},
   matchRatePct : {Number(x) : x \in MatchRatePctValues},
   assumedAnnualReturnPct : {Number(x) : x \in ReturnPctValues}]

\* The worked example: age 35 to 37, salary 100000, savings 10000, 10%
\* contributed, 50% match up to 6%, 5% return.
ScenarioPayload ==
  [age |-> Number(Num(35)),
   retirementAge |-> Number(Num(37)),
   annualSalary |-> Number(Num(100000)),
   currentSavings |-> Number(Num(10000)),
   annualContributionPct |-> Number(Rat(10, 100)),
   employerMatch |-> Boolean(TRUE),
   matchUpToPct |-> Number(Rat(6, 100)),
   matchRatePct |-> Number(Rat(5, 10)),
   assumedAnnualReturnPct |-> Number(Rat(5, 100))]

EmptyPayload ==
  [age |-> Undefined,
   retirementAge |-> Undefined,
   annualSalary |-> Undefined,
   currentSavings |-> Undefined,
   annualContributionPct |-> Undefined,
   employerMatch |-> Undefined,
   matchUpToPct |-> Undefined,
   matchRatePct |-> Undefined,
   assumedAnnualReturnPct |-> Undefined]

\* Bodies of POST /mock-estimate that leave fields out.
PartialPayloads ==
  {EmptyPayload,
   [EmptyPayload EXCEPT !.retirementAge = Number(Num(2)),
                        !.currentSavings = Number(Rat(5, 2))],
   [ScenarioPayload EXCEPT !.employerMatch = Undefined],
   [ScenarioPayload EXCEPT !.age = Undefined, !.retirementAge = Number(Num(3))]}

Payloads == GridPayloads \cup {ScenarioPayload} \cup PartialPayloads

\* Arguments as estimateInputParser produces them: every field present.
ToolArguments == GridPayloads \cup {ScenarioPayload}

\* The payloads of callers that call again and again.
RepeatPayloads ==
  [age : {Number(Num(30))},
   retirementAge : {Number(Num(30)), Number(Num(32))},
   annualSalary : {Number(Num(101))},
   currentSavings : {Number(Rat(21, 2))},
   annualContributionPct : {Number(Rat(1, 4)), Number(Rat(1, 2))},
   employerMatch : {Boolean(b) : b \in BOOLEAN},
   matchUpToPct : {Number(Rat(1, 8))},
   matchRatePct : {Number(Rat(1, 2))},
   assumedAnnualReturnPct : {Number(Rat(1, 2))}]
    \cup {ScenarioPayload, EmptyPayload}

RepeatArguments == RepeatPayloads \ {EmptyPayload}

(***************************************************************************)
(* The state machine: a caller hands a payload to one of the engines,      *)
(* which runs to completion and returns.                                   *)
(***************************************************************************)
NoFrame ==
  [i |-> 0, start |-> Zero, totalEmployeeContrib |-> Zero,
   totalEmployerMatch |-> Zero, rows |-> <<>>]

NoResult ==
  [summary |-> [years |-> 0, endingBalance |-> 0, totalEmployeeContrib |-> 0,
                totalEmployerMatch |-> 0],
   points |-> <<>>]

NoCall ==
  [made |-> FALSE, payload |-> EmptyPayload, result |-> NoResult, others |-> 0]

NoBody == [kind |-> "empty", fields |-> EmptyPayload]

NoRequest == [method |-> "", url |-> "", body |-> NoBody]

NoToolCall ==
  [name |-> "", arguments |-> [pizzaTopping |-> Undefined, fields |-> EmptyPayload]]

NoReply ==
  [kind |-> "pending", error |-> "", text |-> "", pizzaTopping |-> Undefined,
   outputTemplate |-> ""]

\* No MCP session has been opened.
SseIdle ==
  /\ sessions = {}
  /\ transports = <<>>
  /\ post = <<>>

\* No widget is mounted.
WidgetIdle ==
  /\ widget = <<>>
  /\ host = <<>>
  /\ pending = <<>>

\* No graph is rendered.
GraphIdle == graph = <<>>

\* No other part is in play.
RestIdle ==
  /\ conns = <<>>
  /\ SseIdle
  /\ WidgetIdle
  /\ GraphIdle

\* No tool call is in play.
ToolsIdle ==
  /\ toolCall = NoToolCall
  /\ toolReply = NoReply

\* No HTTP request is in play.
HttpIdle ==
  /\ request = NoRequest
  /\ hpc = "idle"
  /\ responses = <<>>
  /\ engineRuns = 0
  /\ kept = <<>>
  /\ served = 0
  /\ storageHandled = 0

\* A first call of either engine is pending.
Called(mockPayloads, toolArguments) ==
  /\ \/ caller = "mock" /\ payload \in mockPayloads
     \/ caller = "mcp" /\ payload \in toolArguments
  /\ pc = "called"
  /\ frame = NoFrame
  /\ result = NoResult
  /\ earlier = NoCall
  /\ HttpIdle
  /\ ToolsIdle
  /\ RestIdle

Init == Called(Payloads, ToolArguments)

\* POST /mock-estimate with the parsed body: estimate(json) is sent back.
MockEstimate ==
  /\ pc = "called"
  /\ caller = "mock"
  /\ frame' = run(payload)
  /\ result' = returned(payload, frame')
  /\ pc' = "returned"
  /\ UNCHANGED <<caller, payload, earlier>>
  /\ UNCHANGED httpVars
  /\ UNCHANGED toolVars
  /\ UNCHANGED restVars

\* A call of the MCP server's estimate function on arguments of the shape
\* estimateInputParser produces.
McpEstimate ==
  /\ pc = "called"
  /\ caller = "mcp"
  /\ frame' = mcpRun(payload)
  /\ result' = mcpReturned(payload, frame')
  /\ pc' = "returned"
  /\ UNCHANGED <<caller, payload, earlier>>
  /\ UNCHANGED httpVars
  /\ UNCHANGED toolVars
  /\ UNCHANGED restVars

Next == MockEstimate \/ McpEstimate

Spec == Init /\ [][Next]_vars

(***************************************************************************)
(* Callers that call the same engine again after it has returned, with one *)
(* returned call kept aside to compare later calls with.                   *)
(***************************************************************************)
InitRepeat == Called(RepeatPayloads, RepeatArguments)

\* The call that has just returned is kept for comparison.
Keep ==
  /\ pc = "returned"
  /\ earlier' =
       [made |-> TRUE, payload |-> payload, result |-> result, others |-> 0]
  /\ UNCHANGED <<caller, payload, pc, frame, result>>
  /\ UNCHANGED httpVars
  /\ UNCHANGED toolVars
  /\ UNCHANGED restVars

\* The next request reaches the same server.
CallAgain ==
  /\ pc = "returned"
  /\ \E p \in (IF caller = "mock" THEN RepeatPayloads ELSE RepeatArguments) :
       /\ payload' = p
       /\ earlier' =
            IF earlier.made /\ p # earlier.payload /\ earlier.others < MaxOthers
              THEN [earlier EXCEPT !.others = @ + 1]
              ELSE earlier
  /\ pc' = "called"
  /\ result' = NoResult
  /\ UNCHANGED <<caller, frame>>
  /\ UNCHANGED httpVars
  /\ UNCHANGED toolVars
  /\ UNCHANGED restVars

NextRepeat == MockEstimate \/ McpEstimate \/ Keep \/ CallAgain

SpecRepeat == InitRepeat /\ [][NextRepeat]_vars

(***************************************************************************)
(* The three copies of the engine, each called on the same well-typed      *)
(* payloads.                                                               *)
(***************************************************************************)
InitCopies ==
  /\ caller \in {"js", "mock", "mcp"}
  /\ payload \in ToolArguments
  /\ pc = "called"
  /\ frame = NoFrame
  /\ result = NoResult
  /\ earlier = NoCall
  /\ HttpIdle
  /\ ToolsIdle
  /\ RestIdle

\* POST /mock-estimate of the JavaScript server.
JsEstimate ==
  /\ pc = "called"
  /\ caller = "js"
  /\ frame' = jsRun(payload)
  /\ result' = jsReturned(payload, frame')
  /\ pc' = "returned"
  /\ UNCHANGED <<caller, payload, earlier>>
  /\ UNCHANGED httpVars
  /\ UNCHANGED toolVars
  /\ UNCHANGED restVars

NextCopies == JsEstimate \/ MockEstimate \/ McpEstimate

SpecCopies == InitCopies /\ [][NextCopies]_vars

(***************************************************************************)
(* The mock servers' request handler.  A server is sent a request, answers *)
(* it, and is sent a few more.                                             *)
(***************************************************************************)
Methods == {"GET", "POST", "OPTIONS", "DELETE"}

\* Request targets; "//" is one that new URL(req.url, base) rejects.
Urls ==
  {"/mock-estimate", "/mock-estimate?draft=1", "/storage/estimates",
   "/storage/prefs", "/unknown", "//"}

\* new URL(req.url, base) throws.
urlThrows(url) == url = "//"

\* url.pathname
pathname(url) ==
  CASE url \in {"/mock-estimate", "/mock-estimate?draft=1"} -> "/mock-estimate"
    [] OTHER -> url

\* JSON objects sent as the body of a request, with fields of every JSON
\* type.
BodyObjects ==
  [age : {Number(Num(30)), NumericString(Num(30))},
   retirementAge : {Number(Num(32)), Text, InfinityValue},
   annualSalary : {Number(Num(101)), Null, ObjectValue},
   currentSavings : {Number(Rat(21, 2)), EmptyString},
   annualContributionPct : {Number(Rat(1, 2))},
   employerMatch : {Boolean(TRUE), Boolean(FALSE), Undefined, Null, Text,
                    EmptyString, Number(Num(1)), NumericString(Zero)},
   matchUpToPct : {Number(Rat(1, 2))},
   matchRatePct : {Number(Rat(1, 2)), Undefined},
   assumedAnnualReturnPct : {Number(Rat(1, 2))}]
    \cup {ScenarioPayload, EmptyPayload}

\* The bodies that are not JSON objects: no body at all, text that is not
\* JSON, and the JSON values null, false, 0, "", true, 7, "text" and [1].
OtherBodyKinds ==
  {"empty", "malformed", "null", "false", "zero", "empty string", "true",
   "number", "string", "array"}

Bodies ==
  {[kind |-> "object", fields |-> o] : o \in BodyObjects}
    \cup {[kind |-> k, fields |-> EmptyPayload] : k \in OtherBodyKinds}

Requests == [method : Methods, url : Urls, body : Bodies]

\* The requests a server is sent after its first.
LaterRequests ==
  [method : {"GET", "POST"},
   url : {"/mock-estimate", "/storage/estimates", "/storage/prefs"},
   body : {[kind |-> "object", fields |-> ScenarioPayload],
           [kind |-> "malformed", fields |-> EmptyPayload]}]

\* JSON.parse(raw) throws; an empty raw body is not parsed at all.
parseThrows_EmptyBody(body) == body.kind \in {"malformed", "empty"}
parseThrows(body) == body.kind = "malformed"

\* The argument of estimate, (raw ? JSON.parse(raw) : {}) || {}, as the
\* engine reads it: an empty body and the falsy values null, false, 0 and ""
\* become {}, and every field read from {} or from a truthy primitive or an
\* array is undefined.
argument(body) ==
  IF body.kind = "object" THEN body.fields ELSE EmptyPayload

\* A response as written by res.writeHead and res.end.
Response(status, error, res, allowMethods) ==
  [status |-> status, error |-> error, result |-> res,
   allowOrigin |-> "*", allowMethods |-> allowMethods]

\* send(res, status, { error })
sendError(status, error) == Response(status, error, NoResult, "")

\* send(res, 200, result)
sendResult(res) == Response(200, "", res, "")

sendNoContent == Response(204, "", NoResult, "")

InitHttp ==
  /\ caller \in {"mock", "js"}
  /\ payload = EmptyPayload
  /\ pc = "called"
  /\ frame = NoFrame
  /\ result = NoResult
  /\ earlier = NoCall
  /\ request \in Requests
  /\ hpc = "received"
  /\ responses = <<>>
  /\ engineRuns = 0
  /\ kept = <<>>
  /\ served = 0
  /\ storageHandled = 0
  /\ ToolsIdle
  /\ RestIdle

\* The handler returns having written one response and run no engine.
Answered(response) ==
  /\ responses' = Append(responses, response)
  /\ hpc' = "done"
  /\ served' = served + 1
  /\ UNCHANGED <<caller, payload, pc, frame, result, earlier, request,
                 engineRuns, kept>>
  /\ UNCHANGED toolVars
  /\ UNCHANGED restVars

\* handleCors: an OPTIONS request is answered before anything else is read.
handleCors ==
  /\ hpc = "received"
  /\ request.method = "OPTIONS"
  /\ Answered(Response(204, "", NoResult, "GET, POST, OPTIONS"))
  /\ UNCHANGED storageHandled

\* new URL throws and the handler's catch answers with the error's message.
CatchInvalidUrl ==
  /\ hpc = "received"
  /\ request.method # "OPTIONS"
  /\ urlThrows(request.url)
  /\ Answered(sendError(500, "Invalid URL"))
  /\ UNCHANGED storageHandled

\* The request is routed to the estimate branch.
IsEstimate(req) ==
  /\ req.method # "OPTIONS"
  /\ ~urlThrows(req.url)
  /\ req.method = "POST"
  /\ pathname(req.url) = "/mock-estimate"

\* POST /mock-estimate with a body JSON.parse rejects.
PostEstimateInvalidJson_RunsEngine ==
  /\ hpc = "received"
  /\ IsEstimate(request)
  /\ parseThrows(request.body)
  /\ payload' = EmptyPayload
  /\ frame' = run(EmptyPayload)
  /\ result' = returned(EmptyPayload, frame')
  /\ pc' = "returned"
  /\ engineRuns' = engineRuns + 1
  /\ responses' = Append(responses, sendResult(result'))
  /\ hpc' = "done"
  /\ served' = served + 1
  /\ UNCHANGED <<caller, earlier, request, kept, storageHandled>>
  /\ UNCHANGED toolVars
  /\ UNCHANGED restVars
PostEstimateInvalidJson ==
  /\ hpc = "received"
  /\ IsEstimate(request)
  /\ parseThrows(request.body)
  /\ Answered(sendError(400, "Invalid JSON"))
  /\ UNCHANGED storageHandled

\* POST /mock-estimate with no body or a body that parses: the engine of
\* the server runs on it and its result is sent.
PostEstimate ==
  /\ hpc = "received"
  /\ IsEstimate(request)
  /\ ~parseThrows(request.body)
  /\ payload' = argument(request.body)
  /\ frame' = IF caller = "js" THEN jsRun(payload') ELSE run(payload')
  /\ result' = IF caller = "js" THEN jsReturned(payload', frame')
                                ELSE returned(payload', frame')
  /\ pc' = "returned"
  /\ engineRuns' = engineRuns + 1
  /\ responses' = Append(responses, sendResult(result'))
  /\ hpc' = "done"
  /\ served' = served + 1
  /\ UNCHANGED <<caller, earlier, request, kept, storageHandled>>
  /\ UNCHANGED toolVars
  /\ UNCHANGED restVars

\* The request is routed to this storage stub.
IsStorage(req, method, path) ==
  /\ req.method # "OPTIONS"
  /\ ~urlThrows(req.url)
  /\ ~IsEstimate(req)
  /\ req.method = method
  /\ pathname(req.url) = path

\* GET /storage/estimates: the body is not read and nothing is kept.
GetStorageEstimates ==
  /\ hpc = "received"
  /\ IsStorage(request, "GET", "/storage/estimates")
  /\ Answered(sendNoContent)
  /\ storageHandled' = storageHandled + 1

\* POST /storage/prefs: the body is not read and nothing is kept.
PostStoragePrefs_Keeps ==
  /\ hpc = "received"
  /\ IsStorage(request, "POST", "/storage/prefs")
  /\ responses' = Append(responses, sendNoContent)
  /\ hpc' = "done"
  /\ served' = served + 1
  /\ kept' = Append(kept, request.body)
  /\ storageHandled' = storageHandled + 1
  /\ UNCHANGED <<caller, payload, pc, frame, result, earlier, request,
                 engineRuns>>
  /\ UNCHANGED toolVars
  /\ UNCHANGED restVars
PostStoragePrefs ==
  /\ hpc = "received"
  /\ IsStorage(request, "POST", "/storage/prefs")
  /\ Answered(sendNoContent)
  /\ storageHandled' = storageHandled + 1

\* No route took the request.
NotFound ==
  /\ hpc = "received"
  /\ request.method # "OPTIONS"
  /\ ~urlThrows(request.url)
  /\ ~IsEstimate(request)
  /\ ~IsStorage(request, "GET", "/storage/estimates")
  /\ ~IsStorage(request, "POST", "/storage/prefs")
  /\ Answered(sendError(404, "Not Found"))
  /\ UNCHANGED storageHandled

\* The server is sent its next request.
NextRequest ==
  /\ hpc = "done"
  /\ served <= MaxServed
  /\ request' \in LaterRequests
  /\ hpc' = "received"
  /\ responses' = <<>>
  /\ engineRuns' = 0
  /\ payload' = EmptyPayload
  /\ result' = NoResult
  /\ pc' = "called"
  /\ UNCHANGED <<caller, frame, earlier, kept, served, storageHandled>>
  /\ UNCHANGED toolVars
  /\ UNCHANGED restVars

NextHttp ==
  \/ handleCors
  \/ CatchInvalidUrl
  \/ PostEstimateInvalidJson
  \/ PostEstimate
  \/ GetStorageEstimates
  \/ PostStoragePrefs
  \/ NotFound
  \/ NextRequest

SpecHttp == InitHttp /\ [][NextHttp]_vars

(***************************************************************************)
(* The MCP server's tools/call handler.                                    *)
(***************************************************************************)
\* The widgets table: id, templateUri and responseText of each widget.
widgets ==
  {[id |-> "pizza-map", templateUri |-> "ui://widget/pizza-map.html",
    responseText |-> "Rendered a pizza map!"],
   [id |-> "pizza-carousel", templateUri |-> "ui://widget/pizza-carousel.html",
    responseText |-> "Rendered a pizza carousel!"],
   [id |-> "pizza-albums", templateUri |-> "ui://widget/pizza-albums.html",
    responseText |-> "Rendered a pizza album!"],
   [id |-> "pizza-list", templateUri |-> "ui://widget/pizza-list.html",
    responseText |-> "Rendered a pizza list!"],
   [id |-> "star", templateUri |-> "ui://widget/star.html",
    responseText |-> "Rendered retirement estimator!"],
   [id |-> "pizza-line-graph",
    templateUri |-> "ui://widget/pizza-line-graph.html",
    responseText |-> "Rendered a pizza line graph!"],
   [id |-> "pizza-table-card",
    templateUri |-> "ui://widget/pizza-table-card.html",
    responseText |-> "Rendered a pizza table card!"]}

\* The names widgetsById has an entry for.
widgetsById == {w.id : w \in widgets}

\* widgetsById.get(name), for a name that has an entry.
widgetOf(name) == CHOOSE w \in widgets : w.id = name

\* The tools the server lists: one per widget, and estimateTool.
tools == widgetsById \cup {"estimate_retirement"}

\* The estimate fields of a call that gives the two ages and nothing else.
AgesOnly ==
  [EmptyPayload EXCEPT !.age = Number(Num(30)),
                       !.retirementAge = Number(Num(32))]

\* The tools/call requests: a listed or unlisted tool name, with arguments
\* that hold a pizzaTopping (a string, a number, or none) and estimate fields.
ToolCalls ==
  [name : tools \cup {"unlisted"},
   arguments : [pizzaTopping : {Text, Number(Num(1)), Undefined},
                fields : RepeatArguments \cup {AgesOnly}]]

\* toolInputParser.parse(arguments) throws: pizzaTopping is not a string.
toolInputThrows(arguments) == arguments.pizzaTopping.type # "text"

InitTools ==
  /\ caller = "mcp"
  /\ payload = EmptyPayload
  /\ pc = "called"
  /\ frame = NoFrame
  /\ result = NoResult
  /\ earlier = NoCall
  /\ HttpIdle
  /\ RestIdle
  /\ toolCall \in ToolCalls
  /\ toolReply = NoReply

\* The handler ends with this reply; it calls no engine.
Replied(reply) ==
  /\ toolReply' = reply
  /\ UNCHANGED <<caller, payload, pc, frame, result, earlier, toolCall>>
  /\ UNCHANGED httpVars
  /\ UNCHANGED restVars

\* widgetsById has no entry for the name: the handler throws.
CallToolUnknown ==
  /\ toolReply.kind = "pending"
  /\ toolCall.name \notin widgetsById
  /\ Replied([NoReply EXCEPT !.kind = "error", !.error = "Unknown tool"])

\* The name is a widget's and toolInputParser rejects the arguments.
CallToolInvalidInput ==
  /\ toolReply.kind = "pending"
  /\ toolCall.name \in widgetsById
  /\ toolInputThrows(toolCall.arguments)
  /\ Replied([NoReply EXCEPT !.kind = "error", !.error = "Invalid input"])

\* The name is a widget's and the arguments hold a topping: the widget's
\* text, the topping and the widget's template are returned.
CallTool ==
  /\ toolReply.kind = "pending"
  /\ toolCall.name \in widgetsById
  /\ ~toolInputThrows(toolCall.arguments)
  /\ Replied([kind |-> "result",
              error |-> "",
              text |-> widgetOf(toolCall.name).responseText,
              pizzaTopping |-> toolCall.arguments.pizzaTopping,
              outputTemplate |-> widgetOf(toolCall.name).templateUri])

NextTools == CallToolUnknown \/ CallToolInvalidInput \/ CallTool

SpecTools == InitTools /\ [][NextTools]_vars

(***************************************************************************)
(* Several POST /mock-estimate requests in progress at one server.  Each  *)
(* handler awaits the chunks of its own request; between two awaits it     *)
(* runs alone, so the chunks of the requests arrive in any order and each  *)
(* estimate runs to completion.                                            *)
(***************************************************************************)
\* How many requests a server has in progress at once.
MaxRequests == 2

\* Into how many chunks a body is split at most.
MaxChunks == 2

\* The bodies sent at the same time.
ConcurrentBodies ==
  {[kind |-> "object", fields |-> ScenarioPayload],
   [kind |-> "object", fields |-> AgesOnly],
   [kind |-> "malformed", fields |-> EmptyPayload],
   NoBody}

\* A body sent in n chunks; an empty body has none.
Pieces(body, n) ==
  [k \in 1..n |-> [of |-> body, part |-> k, last |-> n]]

\* Buffer.concat(chunks).toString("utf8"): the body the chunks are the
\* pieces of, nothing when there are none, and text that is no JSON when
\* they are pieces of several bodies or are not all the pieces of one.
concat(chunks) ==
  IF chunks = <<>> THEN NoBody
  ELSE IF chunks = Pieces(chunks[1].of, chunks[1].last) THEN chunks[1].of
  ELSE [kind |-> "malformed", fields |-> EmptyPayload]

\* chunks.push(chunk) in the handler of request r.
push_SharedChunks(cs, r, chunk) ==
  [i \in DOMAIN cs |-> [cs[i] EXCEPT !.chunks = Append(@, chunk)]]
push(cs, r, chunk) == [cs EXCEPT ![r].chunks = Append(@, chunk)]

InitConcurrent ==
  /\ caller \in {"mock", "js"}
  /\ payload = EmptyPayload
  /\ pc = "called"
  /\ frame = NoFrame
  /\ result = NoResult
  /\ earlier = NoCall
  /\ HttpIdle
  /\ ToolsIdle
  /\ SseIdle
  /\ WidgetIdle
  /\ GraphIdle
  /\ conns = <<>>

\* A POST /mock-estimate arrives and its handler runs up to its first await.
Accept ==
  /\ Len(conns) < MaxRequests
  /\ \E body \in ConcurrentBodies :
       \E n \in (IF body.kind = "empty" THEN {0} ELSE 1..MaxChunks) :
         conns' = Append(conns,
                         [body |-> body, pieces |-> n, arrived |-> 0,
                          chunks |-> <<>>, state |-> "reading",
                          responses |-> <<>>, overlapped |-> FALSE])
  /\ UNCHANGED <<caller, payload, pc, frame, result, earlier>>
  /\ UNCHANGED httpVars
  /\ UNCHANGED toolVars
  /\ UNCHANGED <<sseVars, widgetVars, graph>>

\* The request has received some of its chunks and not all.
Midway(c) == c.state = "reading" /\ c.arrived > 0 /\ c.arrived < c.pieces

\* The next chunk of request r arrives and its handler pushes it.
Chunk(r) ==
  /\ conns[r].state = "reading"
  /\ conns[r].arrived < conns[r].pieces
  /\ LET c == conns[r]
         pushed == push(conns, r, Pieces(c.body, c.pieces)[c.arrived + 1])
     IN  conns' =
           [pushed EXCEPT
              ![r].arrived = @ + 1,
              ![r].overlapped =
                 @ \/ \E o \in DOMAIN conns : o # r /\ Midway(conns[o])]
  /\ UNCHANGED <<caller, payload, pc, frame, result, earlier>>
  /\ UNCHANGED httpVars
  /\ UNCHANGED toolVars
  /\ UNCHANGED <<sseVars, widgetVars, graph>>

\* The body of request r has ended and JSON.parse rejects what was read.
EndInvalidJson(r) ==
  /\ conns[r].state = "reading"
  /\ conns[r].arrived = conns[r].pieces
  /\ parseThrows(concat(conns[r].chunks))
  /\ conns' = [conns EXCEPT
                 ![r].state = "done",
                 ![r].responses = Append(@, sendError(400, "Invalid JSON"))]
  /\ UNCHANGED <<caller, payload, pc, frame, result, earlier>>
  /\ UNCHANGED httpVars
  /\ UNCHANGED toolVars
  /\ UNCHANGED <<sseVars, widgetVars, graph>>

\* The body of request r has ended and parses (or is empty): the engine runs
\* on it to completion and its result is sent.
EndEstimate(r) ==
  /\ conns[r].state = "reading"
  /\ conns[r].arrived = conns[r].pieces
  /\ ~parseThrows(concat(conns[r].chunks))
  /\ payload' = argument(concat(conns[r].chunks))
  /\ frame' = IF caller = "js" THEN jsRun(payload') ELSE run(payload')
  /\ result' = IF caller = "js" THEN jsReturned(payload', frame')
                                ELSE returned(payload', frame')
  /\ pc' = "returned"
  /\ conns' = [conns EXCEPT
                 ![r].state = "done",
                 ![r].responses = Append(@, sendResult(result'))]
  /\ UNCHANGED <<caller, earlier>>
  /\ UNCHANGED httpVars
  /\ UNCHANGED toolVars
  /\ UNCHANGED <<sseVars, widgetVars, graph>>

NextConcurrent ==
  \/ Accept
  \/ \E r \in DOMAIN conns : Chunk(r)
  \/ \E r \in DOMAIN conns : EndInvalidJson(r)
  \/ \E r \in DOMAIN conns : EndEstimate(r)

SpecConcurrent == InitConcurrent /\ [][NextConcurrent]_vars

(***************************************************************************)
(* The MCP server's sessions: GET /mcp opens one, POST /mcp/messages       *)
(* addresses one by its id.                                                *)
(***************************************************************************)
\* How many sessions are opened.
MaxSessions == 2

\* The sessionId parameter of a POST: absent, empty, or an id, where 0 is an
\* id no transport has ever had.
SessionIdParams ==
  {[kind |-> "absent", id |-> 0], [kind |-> "empty", id |-> 0]}
    \cup {[kind |-> "id", id |-> n] : n \in 0..MaxSessions}

NoPost == [seq |-> 0, sessionId |-> [kind |-> "absent", id |-> 0], outcome |-> ""]

InitSse ==
  /\ caller = "mcp"
  /\ payload = EmptyPayload
  /\ pc = "called"
  /\ frame = NoFrame
  /\ result = NoResult
  /\ earlier = NoCall
  /\ HttpIdle
  /\ ToolsIdle
  /\ WidgetIdle
  /\ GraphIdle
  /\ conns = <<>>
  /\ sessions = {}
  /\ transports = <<>>
  /\ post = NoPost

\* What the session steps leave alone.
SseFrame ==
  /\ UNCHANGED <<caller, payload, pc, frame, result, earlier, conns, graph>>
  /\ UNCHANGED httpVars
  /\ UNCHANGED toolVars
  /\ UNCHANGED widgetVars

\* handleSseRequest up to its await: a transport with a fresh session id is
\* made and entered in the map.
GetMcp ==
  /\ Len(transports) < MaxSessions
  /\ transports' = Append(transports, "connecting")
  /\ sessions' = sessions \cup {Len(transports) + 1}
  /\ UNCHANGED post
  /\ SseFrame

\* server.connect(transport) resolves.
Connected(id) ==
  /\ transports[id] = "connecting"
  /\ transports' = [transports EXCEPT ![id] = "open"]
  /\ UNCHANGED <<sessions, post>>
  /\ SseFrame

\* server.connect(transport) rejects: the catch deletes the session.
ConnectFails(id) ==
  /\ transports[id] = "connecting"
  /\ transports' = [transports EXCEPT ![id] = "failed"]
  /\ sessions' = sessions \ {id}
  /\ UNCHANGED post
  /\ SseFrame

\* The transport closes: its onclose deletes the session.
Close_KeepsSession(id) ==
  /\ transports[id] \in {"connecting", "open"}
  /\ transports' = [transports EXCEPT ![id] = "closed"]
  /\ UNCHANGED <<sessions, post>>
  /\ SseFrame
Close(id) ==
  /\ transports[id] \in {"connecting", "open"}
  /\ transports' = [transports EXCEPT ![id] = "closed"]
  /\ sessions' = sessions \ {id}
  /\ UNCHANGED post
  /\ SseFrame

\* handlePostMessage ends with this outcome and leaves the map alone.
Posted(param, outcome) ==
  /\ post' = [seq |-> 1 - post.seq, sessionId |-> param, outcome |-> outcome]
  /\ UNCHANGED <<sessions, transports>>
  /\ SseFrame

\* A POST whose sessionId is absent or empty: 400.
PostMissingSessionId ==
  \E param \in SessionIdParams :
    /\ param.kind # "id"
    /\ Posted(param, "400 Missing sessionId query parameter")

\* A POST whose sessionId is not in the map: 404.
PostUnknownSession ==
  \E param \in SessionIdParams :
    /\ param.kind = "id"
    /\ param.id \notin sessions
    /\ Posted(param, "404 Unknown session")

\* A POST whose sessionId is in the map: it is handed to the transport of
\* that session.
PostToTransport ==
  \E param \in SessionIdParams :
    /\ param.kind = "id"
    /\ param.id \in sessions
    /\ Posted(param, "handed to transport")

NextSse ==
  \/ GetMcp
  \/ \E id \in DOMAIN transports : Connected(id)
  \/ \E id \in DOMAIN transports : ConnectFails(id)
  \/ \E id \in DOMAIN transports : Close(id)
  \/ PostMissingSessionId
  \/ PostUnknownSession
  \/ PostToTransport

SpecSse == InitSse /\ [][NextSse]_vars

(***************************************************************************)
(* The estimator widget: the App component's state, its handlers, and the  *)
(* estimate request it sends to the local preview server.                  *)
(***************************************************************************)
\* How many times the Estimate button is clicked.
MaxClicks == 2

null == [null |-> TRUE]

\* What is typed into the age and retirement age inputs.
AgeInputs == {"0", "40"}

RetirementAgeInputs == {"70"}

\* Number(str) || 0 for the strings the inputs hold.
NumberOrZero(str) ==
  CASE str = "" -> Zero
    [] str = "0" -> Zero
    [] str = "5" -> Num(5)
    [] str = "6" -> Num(6)
    [] str = "10" -> Num(10)
    [] str = "35" -> Num(35)
    [] str = "40" -> Num(40)
    [] str = "65" -> Num(65)
    [] str = "70" -> Num(70)

\* parseCurrencyToNumber(str): the digits and dots of the string as a number,
\* or 0.
parseCurrencyToNumber(str) ==
  CASE str = "" -> Zero
    [] str = "$120,000.00" -> Num(120000)
    [] str = "$50,000.00" -> Num(50000)

\* A percentage typed as a number, as a fraction.
Fraction(str) == Rat(NumberOrZero(str)[1], 100 * NumberOrZero(str)[2])

\* buildPayloadFromForm() on the form fields of state w.
buildPayloadFromForm(w) ==
  [age |-> NumberOrZero(w.age),
   retirementAge |-> NumberOrZero(w.retirementAge),
   annualSalary |-> parseCurrencyToNumber(w.annualSalaryInput),
   currentSavings |-> parseCurrencyToNumber(w.currentSavingsInput),
   annualContributionPct |-> Fraction(w.annualContributionPct),
   employerMatch |-> w.employerMatchEnabled,
   matchUpToPct |-> Fraction(w.matchUpToPct),
   matchRatePct |-> Fraction(w.matchRatePct),
   assumedAnnualReturnPct |-> Fraction(w.assumedAnnualReturnPct)]

\* JSON.stringify of a payload or of null: the values in key order.  The
\* numbers of a payload are finite, so equal texts mean equal values.
stringify(p) ==
  IF p = null THEN <<>>
  ELSE <<p.age, p.retirementAge, p.annualSalary, p.currentSavings,
         p.annualContributionPct, p.employerMatch, p.matchUpToPct,
         p.matchRatePct, p.assumedAnnualReturnPct>>

\* The text of the primary button as rendered from state w.
estimateBtnLabel_AnyBaseline(w) ==
  IF w.lastEstimated # null THEN "Re-estimate" ELSE "Estimate"
estimateBtnLabel(w) ==
  IF /\ w.lastEstimated # null
     /\ stringify(buildPayloadFromForm(w)) # stringify(w.lastEstimated)
    THEN "Re-estimate"
    ELSE "Estimate"

\* The disabled attribute of the primary button as rendered from state w.
estimateBtnDisabled(w) == w.isEstimating

\* The state of App on its first render.
InitialApp ==
  [age |-> "",
   retirementAge |-> "",
   annualSalaryInput |-> "",
   currentSavingsInput |-> "",
   annualContributionPct |-> "",
   assumedAnnualReturnPct |-> "",
   employerMatchEnabled |-> TRUE,
   matchUpToPct |-> "",
   matchRatePct |-> "",
   rows |-> <<>>,
   summary |-> null,
   isEstimating |-> FALSE,
   lastEstimated |-> null,
   mounted |-> FALSE,
   event |-> "render",
   afterReset |-> FALSE,
   clicks |-> 0]

SomeSummary ==
  [years |-> 1, endingBalance |-> 105, totalEmployeeContrib |-> 100,
   totalEmployerMatch |-> 0]

SomePoint ==
  [year |-> 1, age |-> 36, startBalance |-> 0, employeeContribution |-> 100,
   employerMatch |-> 0, growth |-> 5, endBalance |-> 105]

\* The values a points field holds: nothing, an array, or something that is
\* truthy and no array.
PointsValues ==
  {[kind |-> "absent", items |-> <<>>],
   [kind |-> "array", items |-> <<SomePoint>>],
   [kind |-> "object", items |-> <<>>]}

\* A JSON object with a summary and points, with a summary and something
\* else for points, or with neither.
ResultObjects ==
  [summary : {SomeSummary}, points : PointsValues]
    \cup {[summary |-> null, points |-> [kind |-> "absent", items |-> <<>>]]}

\* window.OPENAI_WIDGET_DATA: nothing, or data from the host.
HostData == {null} \cup ResultObjects

\* The JSON bodies the preview server answers with: null, or an object.
Replies == {null} \cup ResultObjects

\* Array.isArray(points) ? points : []
rowsOf(points) == IF points.kind = "array" THEN points.items ELSE <<>>

InitWidget ==
  /\ caller = "widget"
  /\ payload = EmptyPayload
  /\ pc = "called"
  /\ frame = NoFrame
  /\ result = NoResult
  /\ earlier = NoCall
  /\ HttpIdle
  /\ ToolsIdle
  /\ SseIdle
  /\ GraphIdle
  /\ conns = <<>>
  /\ widget = InitialApp
  /\ host \in HostData
  /\ pending = <<>>

\* What the widget's steps leave alone.
WidgetFrame ==
  /\ UNCHANGED <<caller, payload, pc, frame, result, earlier, conns, graph>>
  /\ UNCHANGED httpVars
  /\ UNCHANGED toolVars
  /\ UNCHANGED sseVars
  /\ UNCHANGED host

\* The mount effect: with points and a summary in the host data, the
\* results are taken from it and the form as it stands becomes the baseline.
Mount ==
  /\ ~widget.mounted
  /\ widget' =
       IF host # null /\ host.points.kind # "absent" /\ host.summary # null
         THEN [widget EXCEPT !.mounted = TRUE,
                             !.event = "mount",
                             !.summary = host.summary,
                             !.rows = rowsOf(host.points),
                             !.lastEstimated = buildPayloadFromForm(widget)]
         ELSE [widget EXCEPT !.mounted = TRUE, !.event = "mount"]
  /\ UNCHANGED pending
  /\ WidgetFrame

\* onChange of the age input.
setAge(value) ==
  /\ widget.mounted
  /\ widget.age # value
  /\ widget' = [widget EXCEPT !.age = value, !.event = "edit"]
  /\ UNCHANGED pending
  /\ WidgetFrame

\* onChange of the retirement age input.
setRetirementAge(value) ==
  /\ widget.mounted
  /\ widget.retirementAge # value
  /\ widget' = [widget EXCEPT !.retirementAge = value, !.event = "edit"]
  /\ UNCHANGED pending
  /\ WidgetFrame

\* onChange of the employer match checkbox.
setEmployerMatchEnabled ==
  /\ widget.mounted
  /\ widget' = [widget EXCEPT !.employerMatchEnabled = ~@, !.event = "edit"]
  /\ UNCHANGED pending
  /\ WidgetFrame

fillDefaults ==
  /\ widget.mounted
  /\ widget' = [widget EXCEPT !.age = "35",
                              !.retirementAge = "65",
                              !.annualSalaryInput = "$120,000.00",
                              !.currentSavingsInput = "$50,000.00",
                              !.annualContributionPct = "10",
                              !.assumedAnnualReturnPct = "6",
                              !.employerMatchEnabled = TRUE,
                              !.matchUpToPct = "6",
                              !.matchRatePct = "5",
                              !.event = "edit"]
  /\ UNCHANGED pending
  /\ WidgetFrame

\* handleEstimate with host data present: it returns at once.
handleEstimateHosted ==
  /\ widget.mounted
  /\ ~estimateBtnDisabled(widget)
  /\ widget.clicks < MaxClicks
  /\ host # null
  /\ widget' = [widget EXCEPT !.clicks = @ + 1, !.event = "click",
                              !.afterReset = FALSE]
  /\ UNCHANGED pending
  /\ WidgetFrame

\* handleEstimate up to its first await: the payload is built from the form
\* and the request is sent.
handleEstimate ==
  /\ widget.mounted
  /\ ~estimateBtnDisabled(widget)
  /\ widget.clicks < MaxClicks
  /\ host = null
  /\ widget' = [widget EXCEPT !.clicks = @ + 1, !.event = "click",
                              !.afterReset = FALSE,
                              !.isEstimating = TRUE]
  /\ pending' = <<[payload |-> buildPayloadFromForm(widget)]>>
  /\ WidgetFrame

\* The catch and finally of handleEstimate.
Caught_KeepsEstimating ==
  /\ widget' = [widget EXCEPT !.event = "failed"]
  /\ pending' = <<>>
  /\ WidgetFrame
Caught ==
  /\ widget' = [widget EXCEPT !.isEstimating = FALSE, !.event = "failed"]
  /\ pending' = <<>>
  /\ WidgetFrame

\* fetch rejects: the preview server cannot be reached.
FetchRejects ==
  /\ pending # <<>>
  /\ Caught

\* res.json() rejects: the body of the response is no JSON.
ResponseNotJson ==
  /\ pending # <<>>
  /\ Caught

\* The response is the JSON null: reading json.summary throws.
ResponseNull ==
  /\ pending # <<>>
  /\ Caught

\* The response is a JSON object: the results and the baseline are set from
\* it and from the payload that was sent.
ResponseArrives(json) ==
  /\ pending # <<>>
  /\ json # null
  /\ widget' = [widget EXCEPT !.summary = json.summary,
                              !.rows = rowsOf(json.points),
                              !.lastEstimated = pending[1].payload,
                              !.isEstimating = FALSE,
                              !.event = "estimated"]
  /\ pending' = <<>>
  /\ WidgetFrame

handleReset ==
  /\ widget.mounted
  /\ widget' = [widget EXCEPT !.rows = <<>>,
                              !.summary = null,
                              !.annualSalaryInput = "",
                              !.currentSavingsInput = "",
                              !.annualContributionPct = "",
                              !.assumedAnnualReturnPct = "",
                              !.employerMatchEnabled = FALSE,
                              !.matchUpToPct = "",
                              !.matchRatePct = "",
                              !.lastEstimated = null,
                              !.event = "reset",
                              !.afterReset = TRUE]
  /\ UNCHANGED pending
  /\ WidgetFrame

\* The ways the request in flight ends.
Settles ==
  \/ FetchRejects
  \/ ResponseNotJson
  \/ ResponseNull
  \/ \E json \in Replies : ResponseArrives(json)

NextWidget ==
  \/ Mount
  \/ \E value \in AgeInputs : setAge(value)
  \/ \E value \in RetirementAgeInputs : setRetirementAge(value)
  \/ setEmployerMatchEnabled
  \/ fillDefaults
  \/ handleEstimateHosted
  \/ handleEstimate
  \/ FetchRejects
  \/ ResponseNotJson
  \/ ResponseNull
  \/ \E json \in Replies : ResponseArrives(json)
  \/ handleReset

SpecWidget == InitWidget /\ [][NextWidget]_vars

\* The request in flight ends at some time: fetch and res.json() settle.
SpecWidgetLive == SpecWidget /\ WF_vars(Settles)

(***************************************************************************)
(* A render of the LineGraph component on the series it is given.          *)
(* Positions count from 1 here: series[k] is the source's series[k - 1].   *)
(***************************************************************************)
\* How many series a graph is given at most.
MaxSeries == 4

\* The values of a series, one per label.
SeriesValues == {<<1, 1>>, <<2, 4>>, <<3, 3>>}

\* The series arrays a graph is given: one series or more.
SeriesArrays ==
  UNION {[1..n -> [color : {"#FDBA4D"}, values : SeriesValues]] :
           n \in 1..MaxSeries}

RECURSIVE Sum(_)
Sum(values) ==
  IF values = <<>> THEN 0 ELSE values[1] + Sum(Tail(values))

\* s.values.reduce((a, b) => a + b, 0) / Math.max(1, s.values.length)
avg(s) == Rat(Sum(s.values), IF Len(s.values) > 1 THEN Len(s.values) ELSE 1)

\* The positions of the series sorted by ascending average; the sort is
\* stable, so equal averages keep their order.
order(series) ==
  LET before(j, i) ==
        \/ Less(avg(series[j]), avg(series[i]))
        \/ avg(series[j]) = avg(series[i]) /\ j < i
      rank(i) == 1 + Cardinality({j \in DOMAIN series : before(j, i)})
  IN  [k \in DOMAIN series |-> CHOOSE i \in DOMAIN series : rank(i) = k]

\* array[k]: the element, or undefined beyond the end of the array.
at(array, k) == IF k \in DOMAIN array THEN array[k] ELSE Undefined

\* series[order[k - 1]] of the source: undefined when order has no such
\* entry.
picked(series, k) ==
  IF k \notin DOMAIN order(series) THEN Undefined
  ELSE at(series, order(series)[k])

NoGraph(series) ==
  [series |-> series, done |-> FALSE, bands |-> FALSE, bottom |-> Undefined,
   mid |-> Undefined, top |-> Undefined, outcome |-> ""]

InitGraph ==
  /\ caller = "graph"
  /\ payload = EmptyPayload
  /\ pc = "called"
  /\ frame = NoFrame
  /\ result = NoResult
  /\ earlier = NoCall
  /\ HttpIdle
  /\ ToolsIdle
  /\ SseIdle
  /\ WidgetIdle
  /\ conns = <<>>
  /\ \E series \in SeriesArrays : graph = NoGraph(series)

\* What a render leaves alone.
GraphFrame ==
  /\ UNCHANGED <<caller, payload, pc, frame, result, earlier, conns>>
  /\ UNCHANGED httpVars
  /\ UNCHANGED toolVars
  /\ UNCHANGED sseVars
  /\ UNCHANGED widgetVars

\* Fewer than 2 series: the gradients and the bands are skipped.
RenderWithoutBands ==
  /\ ~graph.done
  /\ Len(graph.series) < 2
  /\ graph' = [graph EXCEPT !.done = TRUE, !.outcome = "rendered"]
  /\ GraphFrame

\* 2 series or more, and the three picked series exist: the gradients and
\* the bands are drawn from them.
RenderWithBands ==
  /\ ~graph.done
  /\ Len(graph.series) >= 2
  /\ picked(graph.series, 3) # Undefined
  /\ graph' = [graph EXCEPT !.done = TRUE,
                            !.bands = TRUE,
                            !.bottom = picked(graph.series, 1),
                            !.mid = picked(graph.series, 2),
                            !.top = picked(graph.series, 3),
                            !.outcome = "rendered"]
  /\ GraphFrame

\* 2 series or more, and top is undefined: reading top.color throws.
RenderThrows ==
  /\ ~graph.done
  /\ Len(graph.series) >= 2
  /\ picked(graph.series, 3) = Undefined
  /\ graph' = [graph EXCEPT !.done = TRUE,
                            !.bands = TRUE,
                            !.bottom = picked(graph.series, 1),
                            !.mid = picked(graph.series, 2),
                            !.top = picked(graph.series, 3),
                            !.outcome = "TypeError"]
  /\ GraphFrame

NextGraph == RenderWithoutBands \/ RenderWithBands \/ RenderThrows

SpecGraph == InitGraph /\ [][NextGraph]_vars

(***************************************************************************)
(* Properties                                                              *)
(***************************************************************************)
Returned == pc = "returned"

\* The fields as the called engine reads them.
Input == IF caller = "mock" THEN locals(payload) ELSE mcpLocals(payload)

Points == result.points

\* max(0, round(retirementAge - age))
Horizon ==
  LET n == MathRound(Sub(Input.retirementAge, Input.age))
  IN  IF n > 0 THEN n ELSE 0

\* C1: whenever retirementAge <= age, the call returns no points and a
\* summary with years 0, endingBalance round(max(0, currentSavings)) and both
\* totals 0.
C1_ZeroYearBoundary ==
  (Returned /\ Leq(Input.retirementAge, Input.age)) =>
    /\ Points = <<>>
    /\ result.summary.years = 0
    /\ result.summary.endingBalance =
         MathRound(MathMax(Zero, Input.currentSavings))
    /\ result.summary.totalEmployeeContrib = 0
    /\ result.summary.totalEmployerMatch = 0

C1_Witness ==
  /\ Returned
  /\ caller = "mock"
  /\ Less(Input.retirementAge, Input.age)
  /\ Input.currentSavings = Rat(21, 2)
  /\ Less(Zero, Mul(Input.annualSalary, Input.contribPct))
  /\ result.summary.endingBalance = 11
  /\ Points = <<>>

\* C2: the call returns exactly max(0, round(retirementAge - age)) points,
\* summary.years is that number, and the i-th point (from 1) has year i and
\* age (input age + i).
C2_YearsAndOrder ==
  Returned =>
    /\ Len(Points) = Horizon
    /\ result.summary.years = Horizon
    /\ \A i \in 1..Len(Points) :
         /\ Points[i].year = i
         /\ Points[i].age = Add(Input.age, Num(i))

C2_Witness ==
  /\ Returned
  /\ caller = "mock"
  /\ Input.age = Rat(61, 2)
  /\ Sub(Input.retirementAge, Input.age) = Rat(5, 2)
  /\ Len(Points) = 3
  /\ Points[3].age = Rat(67, 2)

\* C3: for every point after the first, the displayed startBalance equals the
\* displayed endBalance of the point before it.
C3_BalanceContinuity ==
  Returned =>
    \A i \in 2..Len(Points) : Points[i].startBalance = Points[i - 1].endBalance

C3_Witness ==
  /\ Returned
  /\ caller = "mock"
  /\ Len(Points) >= 3
  /\ Points[2].startBalance > Points[1].startBalance
  /\ Points[3].startBalance > Points[2].startBalance
  /\ Points[3].startBalance = Points[2].endBalance

\* C4: whenever there is at least one year, the first point's startBalance is
\* round(max(0, currentSavings)).
C4_FirstStartBalance ==
  (Returned /\ Len(Points) > 0) =>
    Points[1].startBalance =
      (IF Less(Input.currentSavings, Zero)
         THEN 0
         ELSE MathRound(Input.currentSavings))

C4_WitnessNegative ==
  /\ Returned
  /\ caller = "mock"
  /\ Len(Points) > 0
  /\ Less(Input.currentSavings, Zero)
  /\ Points[1].startBalance = 0
  /\ Points[1].endBalance > 0

\* What the called engine returns on payload p.
Engine(p) == IF caller = "mock" THEN estimate(p) ELSE mcpEstimate(p)

\* C5: every startBalance, employeeContribution, employerMatch, growth and
\* endBalance of every point returned is >= 0, whatever finite numbers the
\* payload holds.
C5_NonNegativity ==
  Returned =>
    \A i \in 1..Len(Points) :
      /\ Points[i].startBalance >= 0
      /\ Points[i].employeeContribution >= 0
      /\ Points[i].employerMatch >= 0
      /\ Points[i].growth >= 0
      /\ Points[i].endBalance >= 0

\* C6: a negative annualSalary gives the result of annualSalary = 0, a
\* negative currentSavings gives the result of currentSavings = 0, and in
\* neither case does a point carry a negative balance.
C6_NegativeClamped ==
  Returned =>
    /\ Less(Input.annualSalary, Zero) =>
         result = Engine([payload EXCEPT !.annualSalary = Number(Zero)])
    /\ Less(Input.currentSavings, Zero) =>
         result = Engine([payload EXCEPT !.currentSavings = Number(Zero)])
    /\ (Less(Input.annualSalary, Zero) \/ Less(Input.currentSavings, Zero)) =>
         \A i \in 1..Len(Points) :
           Points[i].startBalance >= 0 /\ Points[i].endBalance >= 0

\* C7: with the employer match enabled, each year's employer contribution
\* does not decrease when matchRatePct is raised, and once
\* annualContributionPct exceeds matchUpToPct it is
\* max(0, annualSalary * matchUpToPct) * matchRatePct and stays so when
\* annualContributionPct is raised further.
C7_MatchCapping ==
  (Returned /\ Input.employerMatch) =>
    /\ \A r \in MatchRatePctValues :
         Leq(Input.matchRatePct, r) =>
           LET raised == Engine([payload EXCEPT !.matchRatePct = Number(r)])
           IN  \A i \in 1..Len(Points) :
                 Points[i].employerMatch <= raised.points[i].employerMatch
    /\ Less(Input.matchUpToPct, Input.contribPct) =>
         /\ \A i \in 1..Len(Points) :
              Points[i].employerMatch =
                MathRound(Mul(MathMax(Zero, Mul(Input.annualSalary,
                                                Input.matchUpToPct)),
                              Input.matchRatePct))
         /\ \A c \in ContributionPctValues :
              Leq(Input.contribPct, c) =>
                LET raised ==
                      Engine([payload EXCEPT !.annualContributionPct = Number(c)])
                IN  \A i \in 1..Len(Points) :
                      Points[i].employerMatch = raised.points[i].employerMatch

C7_Witness ==
  /\ Returned
  /\ caller = "mock"
  /\ Input.employerMatch
  /\ Input.annualSalary = Num(101)
  /\ Input.matchUpToPct = Rat(1, 8)
  /\ Input.contribPct = Rat(1, 4)
  /\ Input.matchRatePct = Rat(1, 2)
  /\ Len(Points) >= 2
  /\ Points[1].employerMatch = 6
  /\ Engine([payload EXCEPT !.annualContributionPct = Number(Rat(1, 2))])
       .points[1].employerMatch = 6
  /\ Engine([payload EXCEPT !.matchRatePct = Number(Num(2))])
       .points[1].employerMatch = 25

\* C8: with employerMatch false, the employerMatch of every point and
\* summary.totalEmployerMatch are 0, whatever the other fields are.
C8_MatchToggleOff ==
  (Returned /\ ~Input.employerMatch) =>
    /\ \A i \in 1..Len(Points) : Points[i].employerMatch = 0
    /\ result.summary.totalEmployerMatch = 0

C8_Witness ==
  /\ Returned
  /\ caller = "mock"
  /\ payload.employerMatch = Boolean(FALSE)
  /\ Less(Zero, Input.annualSalary)
  /\ Less(Zero, Input.contribPct)
  /\ Less(Zero, Input.matchUpToPct)
  /\ Less(Zero, Input.matchRatePct)
  /\ Len(Points) >= 2
  /\ Points[1].employeeContribution > 0
  /\ result.summary.totalEmployerMatch = 0

\* C9: on the worked example the engine returns two points; year 1 has
\* startBalance 10000, employeeContribution 10000, employerMatch 3000, growth
\* 1150, endBalance 24150; year 2 starts at 24150 with the same
\* contributions, its growth round(0.05 * (24150 + 13000)) = 1858 and its
\* endBalance round(24150 + 13000 + 1857.5) = 39008.
C9_Scenario ==
  (Returned /\ payload = ScenarioPayload) =>
    Points =
      << [year |-> 1, age |-> Num(36), startBalance |-> 10000,
          employeeContribution |-> 10000, employerMatch |-> 3000,
          growth |-> 1150, endBalance |-> 24150],
         [year |-> 2, age |-> Num(37), startBalance |-> 24150,
          employeeContribution |-> 10000, employerMatch |-> 3000,
          growth |-> 1858, endBalance |-> 39008] >>

C9_Witness ==
  /\ Returned
  /\ caller = "mock"
  /\ payload = ScenarioPayload
  /\ Len(Points) = 2
  /\ result.summary.endingBalance = 39008

\* C10: a call returns what an earlier call of the same engine with the same
\* payload returned, however many calls with other payloads were made in
\* between.
C10_Idempotence ==
  (Returned /\ earlier.made /\ earlier.payload = payload) =>
    result = earlier.result

C10_Witness ==
  /\ Returned
  /\ caller = "mock"
  /\ earlier.made
  /\ earlier.payload = payload
  /\ earlier.others >= 2
  /\ Len(Points) >= 2
  /\ result.summary.totalEmployerMatch > 0
  /\ result = earlier.result

\* The unrounded contributions of one year, from the fields the engine reads.
YearlyEmployee == MathMax(Zero, Mul(Input.annualSalary, Input.contribPct))

YearlyEmployer ==
  IF Input.employerMatch
    THEN Mul(MathMax(Zero, Mul(Input.annualSalary,
                               MathMin(Input.contribPct, Input.matchUpToPct))),
             Input.matchRatePct)
    ELSE Zero

\* x + ... + x, n times.
RECURSIVE Times(_, _)
Times(n, x) == IF n = 0 THEN Zero ELSE Add(Times(n - 1, x), x)

\* The sums of the displayed per-year contributions.
DisplayedEmployeeSum == SumRows(Points, TRUE)

DisplayedEmployerSum == SumRows(Points, FALSE)

\* C15: summary.totalEmployeeContrib is the rounding of the sum over the years
\* of the unrounded employee contribution, and summary.totalEmployerMatch the
\* rounding of the sum of the unrounded employer contribution; where the sum
\* of the per-year rounded values differs, the summary does not carry it.
C15_TotalsRoundedOnce ==
  Returned =>
    /\ result.summary.totalEmployeeContrib =
         MathRound(Times(Len(Points), YearlyEmployee))
    /\ result.summary.totalEmployerMatch =
         MathRound(Times(Len(Points), YearlyEmployer))

C15_Witness ==
  /\ Returned
  /\ caller = "mock"
  /\ Len(Points) = 4
  /\ YearlyEmployee = Rat(101, 2)
  /\ result.summary.totalEmployeeContrib = 202
  /\ DisplayedEmployeeSum = 204
  /\ result.summary.totalEmployerMatch # DisplayedEmployerSum

\* |a - b| on integers.
Gap(a, b) == IF a < b THEN b - a ELSE a - b

\* C16 as stated: each summary total differs from the sum of the per-year
\* displayed values by at most 1 unit, for any number of years.
C16_GapAtMostOne ==
  Returned =>
    /\ Gap(result.summary.totalEmployeeContrib, DisplayedEmployeeSum) <= 1
    /\ Gap(result.summary.totalEmployerMatch, DisplayedEmployerSum) <= 1

\* C16, amended: each summary total differs from the sum of the per-year
\* displayed values by at most floor(years / 2) units, which is at most 1
\* unit up to 3 years.
C16_GapAtMostHalfYears ==
  Returned =>
    /\ Gap(result.summary.totalEmployeeContrib, DisplayedEmployeeSum)
         <= result.summary.years \div 2
    /\ Gap(result.summary.totalEmployerMatch, DisplayedEmployerSum)
         <= result.summary.years \div 2
    /\ result.summary.years <= 3 =>
         /\ Gap(result.summary.totalEmployeeContrib, DisplayedEmployeeSum) <= 1
         /\ Gap(result.summary.totalEmployerMatch, DisplayedEmployerSum) <= 1

C16_Witness ==
  /\ Returned
  /\ caller = "mock"
  /\ result.summary.years = 4
  /\ Gap(result.summary.totalEmployeeContrib, DisplayedEmployeeSum) = 2
  /\ Gap(result.summary.totalEmployerMatch, DisplayedEmployerSum) = 2

\* The recurrence on unrounded balances: <<b0, ..., bk>>, where bj is the
\* balance after j years.
RECURSIVE Balances(_)
Balances(k) ==
  IF k = 0 THEN <<MathMax(Zero, Input.currentSavings)>>
  ELSE LET sofar == Balances(k - 1)
           before == Add(Add(sofar[k], YearlyEmployee), YearlyEmployer)
       IN  Append(sofar,
                  Add(before, MathMax(Zero, Mul(before, Input.annualReturn))))

\* The same recurrence restarted each year from the displayed balance.
RECURSIVE DisplayedCarry(_)
DisplayedCarry(k) ==
  IF k = 0 THEN MathMax(Zero, Input.currentSavings)
  ELSE LET before == Add(Add(Num(MathRound(DisplayedCarry(k - 1))),
                             YearlyEmployee), YearlyEmployer)
       IN  Add(before, MathMax(Zero, Mul(before, Input.annualReturn)))

\* C17: each year's growth is max(0, (start-of-year balance + employee
\* contribution + employer contribution) * assumedAnnualReturnPct), taken on
\* the balance after the contributions; it is never negative, so the year
\* ends no lower than the balance after its contributions, also under a
\* negative assumedAnnualReturnPct.
C17_GrowthAfterContributions ==
  Returned =>
    LET b == Balances(Len(Points))
    IN  \A k \in 1..Len(Points) :
          LET after == Add(Add(b[k], YearlyEmployee), YearlyEmployer)
          IN  /\ Points[k].growth =
                   MathRound(MathMax(Zero, Mul(after, Input.annualReturn)))
              /\ Points[k].growth >= 0
              /\ Points[k].endBalance >= MathRound(after)

C17_Witness ==
  /\ Returned
  /\ caller = "mock"
  /\ Len(Points) >= 2
  /\ Input.annualReturn = Rat(1, 2)
  /\ Input.currentSavings = Zero
  /\ YearlyEmployee = Rat(101, 2)
  /\ YearlyEmployer = Zero
  /\ Points[1].startBalance = 0
  /\ Points[1].growth = 25
  /\ Points[2].growth = 63

C17_WitnessNegativeReturn ==
  /\ Returned
  /\ Len(Points) >= 2
  /\ Less(Input.annualReturn, Zero)
  /\ Points[2].growth = 0
  /\ Points[2].endBalance > Points[2].startBalance

\* C18: every point and summary.endingBalance are the roundings of the
\* recurrence run on unrounded balances; where restarting each year from the
\* displayed endBalance would give another value, the result does not have it.
C18_RoundingPresentationOnly ==
  Returned =>
    LET b == Balances(Len(Points))
    IN  /\ \A k \in 1..Len(Points) :
             LET after == Add(Add(b[k], YearlyEmployee), YearlyEmployer)
             IN  /\ Points[k].startBalance = MathRound(b[k])
                 /\ Points[k].employeeContribution = MathRound(YearlyEmployee)
                 /\ Points[k].employerMatch = MathRound(YearlyEmployer)
                 /\ Points[k].growth = MathRound(Sub(b[k + 1], after))
                 /\ Points[k].endBalance = MathRound(b[k + 1])
        /\ result.summary.endingBalance = MathRound(b[Len(Points) + 1])

C18_Witness ==
  /\ Returned
  /\ caller = "mock"
  /\ Len(Points) >= 3
  /\ result.summary.endingBalance =
       MathRound(Balances(Len(Points))[Len(Points) + 1])
  /\ result.summary.endingBalance # MathRound(DisplayedCarry(Len(Points)))

\* C14: on a payload whose nine fields are present and well typed, the
\* estimate functions of the JavaScript mock server, the TypeScript mock
\* server and the MCP server return the same summary and the same points.
C14_CopiesAgree ==
  Returned =>
    /\ result = jsEstimate(payload)
    /\ result = estimate(payload)
    /\ result = mcpEstimate(payload)

C14_Witness ==
  /\ Returned
  /\ caller = "js"
  /\ payload.employerMatch = Boolean(TRUE)
  /\ Len(Points) = 4
  /\ Points[4].employerMatch > 0
  /\ Points[4].growth > 0
  /\ result.summary.totalEmployeeContrib > 0
  /\ result = mcpEstimate(payload)
  /\ result = estimate(payload)


(***************************************************************************)
(* Properties of the mock servers' request handler                         *)
(***************************************************************************)
Done == hpc = "done"

\* The one response the request has got.
TheResponse == responses[1]

ServerEngine(p) == IF caller = "js" THEN jsEstimate(p) ELSE estimate(p)

\* The request is a POST /mock-estimate whose body is empty or parses.
ParsedEstimateRequest ==
  /\ request.method = "POST"
  /\ request.url \in {"/mock-estimate", "/mock-estimate?draft=1"}
  /\ request.body.kind # "malformed"

NumericFields ==
  {"age", "retirementAge", "annualSalary", "currentSavings",
   "annualContributionPct", "matchUpToPct", "matchRatePct",
   "assumedAnnualReturnPct"}

\* The payload with every numeric field that is missing or converts to no
\* finite number taken as 0, and an employerMatch that is missing or not a
\* boolean taken as false.
WithDefaults(p) ==
  [f \in DOMAIN p |->
     IF f \in NumericFields
       THEN Number(IF p[f].type \in {"number", "boolean", "numeric string"}
                     THEN p[f].val
                     ELSE Zero)
       ELSE IF p[f].type = "boolean" THEN p[f] ELSE Boolean(FALSE)]

\* C11: every POST /mock-estimate whose body parses is answered 200 with the
\* estimate of the body in which each numeric field that is missing or not
\* convertible to a finite number counts as 0 and an employerMatch that is
\* missing or not a proper boolean counts as false.
C11_ParsedBodyDefaults ==
  (Done /\ ParsedEstimateRequest)
    => responses = <<sendResult(ServerEngine(WithDefaults(argument(request.body))))>>

\* The part of C11 that leaves employerMatch as the code reads it: the
\* answer is 200 with a result, and the numeric fields count as stated.
C11_NumericDefaults ==
  (Done /\ ParsedEstimateRequest)
    => responses =
         <<sendResult(ServerEngine(
             [WithDefaults(argument(request.body)) EXCEPT
                !.employerMatch = Boolean(Truthy(request.body.fields.employerMatch))]))>>

\* The routes the servers name.
NamedRoute(req) ==
  \/ req.method = "OPTIONS"
  \/ req.method = "POST" /\ req.url \in {"/mock-estimate", "/mock-estimate?draft=1"}
  \/ req.method = "GET" /\ req.url = "/storage/estimates"
  \/ req.method = "POST" /\ req.url = "/storage/prefs"

\* C19: a request that is not OPTIONS, POST /mock-estimate,
\* GET /storage/estimates or POST /storage/prefs is answered 404, and every
\* request gets exactly one response, whose status is 200, 204, 400, 404 or
\* 500.
C19_UnknownRoute404 ==
  Done =>
    /\ Len(responses) = 1
    /\ TheResponse.status \in {200, 204, 400, 404, 500}
    /\ ~NamedRoute(request) => responses = <<sendError(404, "Not Found")>>

\* The part of C19 about the number and the status of the responses.
C19_OneResponse ==
  Done =>
    /\ Len(responses) = 1
    /\ TheResponse.status \in {200, 204, 400, 404, 500}

\* The request is one of the two storage requests.
StorageRequest(req) ==
  \/ req.method = "GET" /\ req.url = "/storage/estimates"
  \/ req.method = "POST" /\ req.url = "/storage/prefs"

\* The answer to a request as its method, target and body alone give it.
AnswerTo(req) ==
  CASE req.method = "OPTIONS" -> Response(204, "", NoResult, "GET, POST, OPTIONS")
    [] req.method # "OPTIONS" /\ req.url = "//" -> sendError(500, "Invalid URL")
    [] StorageRequest(req) -> sendNoContent
    [] req.method = "POST"
         /\ req.url \in {"/mock-estimate", "/mock-estimate?draft=1"}
         /\ req.body.kind = "malformed" -> sendError(400, "Invalid JSON")
    [] req.method = "POST"
         /\ req.url \in {"/mock-estimate", "/mock-estimate?draft=1"}
         /\ req.body.kind # "malformed" ->
           sendResult(ServerEngine(argument(req.body)))
    [] OTHER -> sendError(404, "Not Found")

WithSchemaDefaults(p) ==
  [f \in DOMAIN p |->
     IF p[f].type # "undefined" THEN p[f]
     ELSE IF f = "employerMatch" THEN Boolean(FALSE) ELSE Number(Zero)]

\* C13: a call of the estimate_retirement tool that gives age and
\* retirementAge does not end in an error: the engine runs on the arguments
\* with the schema's defaults, and its { summary, points } is returned with
\* the star widget's template.
C13_EstimateToolRuns ==
  (/\ toolReply.kind # "pending"
   /\ toolCall.name = "estimate_retirement"
   /\ toolCall.arguments.fields.age.type = "number"
   /\ toolCall.arguments.fields.retirementAge.type = "number")
    => /\ toolReply.kind = "result"
       /\ engineRuns = 1
       /\ result = mcpEstimate(WithSchemaDefaults(toolCall.arguments.fields))
       /\ toolReply.outputTemplate = "ui://widget/star.html"


(***************************************************************************)
(* Further properties of the engines                                       *)
(***************************************************************************)
\* C27: with employerMatch false, whatever the other fields hold, the
\* balance never decreases from one year to the next: every point has
\* endBalance >= startBalance >= 0, the unrounded balances b0 <= b1 <= ...
\* start at max(0, currentSavings) >= 0, summary.endingBalance is at least
\* round(max(0, currentSavings)), and with years > 0 it is the last point's
\* endBalance.
C27_NoMatchNeverDecreases ==
  (Returned /\ ~Input.employerMatch) =>
    LET b == Balances(Len(Points))
    IN  /\ \A k \in 1..Len(Points) :
             /\ Points[k].endBalance >= Points[k].startBalance
             /\ Points[k].startBalance >= 0
             /\ Leq(b[k], b[k + 1])
             /\ Leq(Zero, b[k])
             /\ Points[k].startBalance = MathRound(b[k])
             /\ Points[k].endBalance = MathRound(b[k + 1])
        /\ frame.start = b[Len(Points) + 1]
        /\ result.summary.endingBalance
             >= MathRound(MathMax(Zero, Input.currentSavings))
        /\ Len(Points) > 0 =>
             result.summary.endingBalance = Points[Len(Points)].endBalance

\* A call without match, with negative salary, negative return and negative
\* savings, over several years whose balance stays where it started.
C27_Witness ==
  /\ Returned
  /\ ~Input.employerMatch
  /\ Len(Points) >= 3
  /\ Less(Input.annualSalary, Zero)
  /\ Less(Zero, Input.contribPct)
  /\ Less(Input.annualReturn, Zero)
  /\ Less(Input.currentSavings, Zero)
  /\ Less(Input.matchRatePct, Zero)
  /\ Points[3].endBalance = 0
  /\ result.summary.endingBalance = 0

\* The displayed parts of point pt added up, less its displayed endBalance.
DisplayGap(pt) ==
  pt.startBalance + pt.employeeContribution + pt.employerMatch + pt.growth
    - pt.endBalance

\* The unrounded start, contributions and growth of year k are all whole.
WholeYear(k) ==
  LET b == Balances(k)
      after == Add(Add(b[k], YearlyEmployee), YearlyEmployer)
  IN  /\ b[k][2] = 1
      /\ YearlyEmployee[2] = 1
      /\ YearlyEmployer[2] = 1
      /\ MathMax(Zero, Mul(after, Input.annualReturn))[2] = 1

\* C28: in every point, endBalance differs from startBalance +
\* employeeContribution + employerMatch + growth, all as displayed, by at
\* most 2, and by nothing when the unrounded start balance, contributions
\* and growth of the year are whole numbers.
C28_DisplayedNearlyAddUp ==
  Returned =>
    \A k \in 1..Len(Points) :
      /\ DisplayGap(Points[k]) \in -2..2
      /\ WholeYear(k) => DisplayGap(Points[k]) = 0

\* A point whose displayed parts exceed its displayed endBalance by 2.
C28_Witness ==
  /\ Returned
  /\ \E k \in 1..Len(Points) : DisplayGap(Points[k]) = 2

\* A point with whole unrounded amounts, not all zero, that add up.
C28_WitnessWhole ==
  /\ Returned
  /\ \E k \in 1..Len(Points) :
       /\ WholeYear(k)
       /\ Points[k].growth > 0
       /\ Points[k].employeeContribution > 0
       /\ DisplayGap(Points[k]) = 0


(***************************************************************************)
(* Further properties of the mock servers' request handler                 *)
(***************************************************************************)
\* The result of the engine when every field has its default.
AllDefaults ==
  [summary |-> [years |-> 0, endingBalance |-> 0, totalEmployeeContrib |-> 0,
                totalEmployerMatch |-> 0],
   points |-> <<>>]

\* The body is empty, or is JSON that is not an object.
NotAnObject(body) ==
  body.kind \in {"empty", "null", "false", "zero", "empty string", "true",
                 "number", "string", "array"}

C29_WitnessArray ==
  /\ Done
  /\ caller = "mock"
  /\ request.method = "POST"
  /\ request.body.kind = "array"
  /\ responses = <<sendResult(AllDefaults)>>


(***************************************************************************)
(* Properties of requests in progress at the same time                     *)
(***************************************************************************)
\* C21: however the chunks of the POST /mock-estimate requests in progress
\* interleave, each request gets one response, the one it would get alone:
\* the engine's result on its own complete body (400 when that body is no
\* JSON).
C21_ConcurrentCallsSafe ==
  \A r \in DOMAIN conns :
    conns[r].state = "done" =>
      conns[r].responses =
        <<IF conns[r].body.kind = "malformed"
            THEN sendError(400, "Invalid JSON")
            ELSE sendResult(ServerEngine(argument(conns[r].body)))>>

\* Two requests with different bodies, each sent in two chunks that arrived
\* between the chunks of the other, have both been answered with results.
C21_Witness ==
  /\ Len(conns) = 2
  /\ conns[1].body.fields = ScenarioPayload
  /\ conns[2].body.fields = AgesOnly
  /\ \A r \in 1..2 :
       /\ conns[r].state = "done"
       /\ conns[r].pieces = 2
       /\ conns[r].overlapped
       /\ conns[r].responses[1].status = 200
  /\ conns[1].responses # conns[2].responses


(***************************************************************************)
(* Properties of the MCP server's sessions                                 *)
(***************************************************************************)
\* The sessions whose transport has neither closed nor failed to connect.
Live(ts) == {id \in DOMAIN ts : ts[id] \in {"connecting", "open"}}

\* C26: the sessions map holds a session id exactly from its GET /mcp until
\* its transport closes or its connect fails; a POST /mcp/messages is handed
\* to a transport only when its sessionId is in the map at that moment, a
\* POST naming any other id (a closed session's too) gets 404, one without
\* sessionId gets 400, and a rejected POST leaves the map as it was.
C26_SessionsMap ==
  [][/\ sessions' = Live(transports')
     /\ post' # post =>
          /\ post'.sessionId.kind # "id" =>
               /\ post'.outcome = "400 Missing sessionId query parameter"
               /\ sessions' = sessions
          /\ (post'.sessionId.kind = "id" /\ post'.sessionId.id \notin sessions) =>
               /\ post'.outcome = "404 Unknown session"
               /\ sessions' = sessions
          /\ (post'.sessionId.kind = "id" /\ post'.sessionId.id \in sessions) =>
               post'.outcome = "handed to transport"]_vars

\* Of two sessions opened, the first has closed and a POST naming it has
\* been answered 404 while the second is still in the map.
C26_Witness ==
  /\ Len(transports) = 2
  /\ transports[1] = "closed"
  /\ transports[2] = "open"
  /\ sessions = {2}
  /\ post.sessionId = [kind |-> "id", id |-> 1]
  /\ post.outcome = "404 Unknown session"


(***************************************************************************)
(* Properties of the estimator widget                                      *)
(***************************************************************************)
\* The form fields other than age and retirementAge.
OtherFields ==
  {"annualSalaryInput", "currentSavingsInput", "annualContributionPct",
   "assumedAnnualReturnPct", "employerMatchEnabled", "matchUpToPct",
   "matchRatePct"}

\* C22: Reset clears the results (rows empty, summary null, lastEstimated
\* null), keeps age and retirementAge as they were before the click, and
\* puts every other form field, the employer-match toggle too, back to its
\* initial value.
C22_ResetToInitial ==
  [][widget'.event = "reset" =>
       /\ widget'.rows = <<>>
       /\ widget'.summary = null
       /\ widget'.lastEstimated = null
       /\ widget'.age = widget.age
       /\ widget'.retirementAge = widget.retirementAge
       /\ \A f \in OtherFields : widget'[f] = InitialApp[f]]_vars

\* C22 without the toggle: Reset clears the results, keeps the two ages and
\* empties every other input.
C22_ResetButToggle ==
  [][widget'.event = "reset" =>
       /\ widget'.rows = <<>>
       /\ widget'.summary = null
       /\ widget'.lastEstimated = null
       /\ widget'.age = widget.age
       /\ widget'.retirementAge = widget.retirementAge
       /\ \A f \in OtherFields \ {"employerMatchEnabled"} :
            widget'[f] = InitialApp[f]
       /\ widget'.employerMatchEnabled = FALSE]_vars

\* A baseline exists and the payload of the form as it stands differs from
\* it.
DiffersFromBaseline ==
  /\ widget.lastEstimated # null
  /\ buildPayloadFromForm(widget) # widget.lastEstimated

\* C23: the primary button reads "Re-estimate" exactly when a baseline
\* exists and the payload built from the form differs from it, and
\* "Estimate" in every other state, right after a completed estimate and
\* right after Reset among them.
C23_ButtonLabel ==
  widget.mounted =>
    /\ estimateBtnLabel(widget) =
         (IF DiffersFromBaseline THEN "Re-estimate" ELSE "Estimate")
    /\ widget.event \in {"estimated", "reset"} =>
         estimateBtnLabel(widget) = "Estimate"

\* C23 as the code has it: the label follows the baseline and the form in
\* every state; right after Reset it is "Estimate"; right after a completed
\* estimate a baseline exists, the payload that was sent, and the label is
\* "Estimate" exactly when the form still gives that payload, so not when
\* the form was edited to another payload while the request was in flight.
C23_ButtonLabelByBaseline ==
  widget.mounted =>
    /\ estimateBtnLabel(widget) =
         (IF DiffersFromBaseline THEN "Re-estimate" ELSE "Estimate")
    /\ widget.event = "reset" => estimateBtnLabel(widget) = "Estimate"
    /\ widget.event = "estimated" =>
         /\ widget.lastEstimated # null
         /\ estimateBtnLabel(widget) = "Estimate"
              <=> buildPayloadFromForm(widget) = widget.lastEstimated

\* An estimate has completed for a form that was edited while the request
\* was in flight, and the button reads "Re-estimate".
C23_Witness ==
  /\ widget.event = "estimated"
  /\ widget.lastEstimated # null
  /\ widget.lastEstimated.age = Num(35)
  /\ widget.age = "40"
  /\ widget.rows # <<>>
  /\ estimateBtnLabel(widget) = "Re-estimate"

\* C24: from a click on Reset until the next click on Estimate, rows is
\* empty, summary is null and lastEstimated is null, also when a request
\* that was started before the reset completes after it.
C24_ResetStaysCleared ==
  (widget.mounted /\ widget.afterReset) =>
    /\ widget.rows = <<>>
    /\ widget.summary = null
    /\ widget.lastEstimated = null

\* A click on Estimate that starts a request, and one that does not.
StartsRequest == widget'.event = "click" /\ host = null

Ignored == widget'.event = "click" /\ host # null

\* C25: every Estimate click that starts a local request is followed at some
\* time by isEstimating false, whether the request succeeds, the fetch fails
\* or the response is no JSON; the button is disabled exactly while
\* isEstimating is true; a click with host data present starts no request
\* and changes nothing of the state of the component.
C25_EstimatingEnds ==
  /\ [](widget.mounted =>
          (estimateBtnDisabled(widget) <=> widget.isEstimating))
  /\ [][StartsRequest => (widget'.isEstimating /\ pending' # <<>>)]_vars
  /\ (widget.isEstimating ~> ~widget.isEstimating)
  /\ [][Ignored =>
          /\ pending' = pending
          /\ widget' = [widget EXCEPT !.clicks = widget'.clicks,
                                      !.event = "click",
                                      !.afterReset = widget'.afterReset]]_vars

\* A second request has ended by a failure, after a first that succeeded.
C25_Witness ==
  /\ widget.clicks = 2
  /\ widget.event = "failed"
  /\ ~widget.isEstimating
  /\ pending = <<>>
  /\ widget.rows # <<>>


(***************************************************************************)
(* Properties of the LineGraph component                                   *)
(***************************************************************************)
\* C30: for every number of series >= 1 the band and gradient code reads
\* only series that exist: below 2 series the bands are skipped, and with 2
\* or more the bottom, middle and top series it picks are all defined.
C30_SeriesWithinBounds ==
  graph.done =>
    /\ Len(graph.series) < 2 => ~graph.bands
    /\ Len(graph.series) >= 2 =>
         /\ graph.bands
         /\ graph.bottom # Undefined
         /\ graph.mid # Undefined
         /\ graph.top # Undefined
    /\ graph.outcome = "rendered"

\* C30 for every number of series but 2.
C30_ButTwoSeries ==
  (graph.done /\ Len(graph.series) # 2) =>
    /\ Len(graph.series) < 2 => ~graph.bands
    /\ Len(graph.series) >= 2 =>
         /\ graph.bands
         /\ graph.bottom # Undefined
         /\ graph.mid # Undefined
         /\ graph.top # Undefined
    /\ graph.outcome = "rendered"

====
